---- MODULE Spec2Model ----
(***************************************************************************)
(* The Metropolis-Hastings acceptance engine of CDT-plusplus               *)
(* (Metropolis.h): the Metropolis functor, its move statistics, its        *)
(* believed configuration counts and the pass driver operator().           *)
(*                                                                         *)
(* Collaborators that live outside Metropolis.h (the move executor         *)
(* make_23_move / make_32_move / make_26_move, the classifier, the action  *)
(* evaluator S3_bulk_action and the random source) are modelled from the   *)
(* specification's description of their interfaces.                        *)
(***************************************************************************)
EXTENDS Integers, Sequences, FiniteSets, TLC

(***************************************************************************)
(* Wide integers.  The counters are uintmax_t (64 bit) and CalculateA1     *)
(* narrows one of them to int (32 bit).  TLC's integers are 32 bit, so a   *)
(* value is written h*2^64 + m*2^31 + l with small coefficients h, m, l.   *)
(* For the values the model handles (|l| far below 2^31, |m| far below     *)
(* 2^33) the representation is unique, sums and differences are taken      *)
(* componentwise and the order is lexicographic.                           *)
(***************************************************************************)
W(n) == [h |-> 0, m |-> 0, l |-> n]

Pow31 == [h |-> 0, m |-> 1, l |-> 0]

WAdd(a, b) == [h |-> a.h + b.h, m |-> a.m + b.m, l |-> a.l + b.l]

WSub(a, b) == [h |-> a.h - b.h, m |-> a.m - b.m, l |-> a.l - b.l]

WScale(k, a) == [h |-> k * a.h, m |-> k * a.m, l |-> k * a.l]

Sgn(n) == IF n > 0 THEN 1 ELSE IF n < 0 THEN -1 ELSE 0

WSign(a) == IF a.h # 0 THEN Sgn(a.h) ELSE IF a.m # 0 THEN Sgn(a.m) ELSE Sgn(a.l)

WLeq(a, b) == WSign(WSub(a, b)) <= 0

WLess(a, b) == WSign(WSub(a, b)) < 0

\* Reduction modulo 2^64: what storing a value into a uintmax_t does.
ToUintmax(a) ==
    IF WSign(a) < 0 THEN [a EXCEPT !.h = @ + 1]
    ELSE IF WSign([a EXCEPT !.h = @ - 1]) >= 0 THEN [a EXCEPT !.h = @ - 1]
    ELSE a

\* uintmax_t -> int (32 bit, two's complement): the value modulo 2^32, read
\* as a signed number.  2^64 and every even multiple of 2^31 vanish.
ToInt(a) ==
    IF a.m % 2 = 0 THEN W(a.l)
    ELSE IF a.l >= 0 THEN [h |-> 0, m |-> -1, l |-> a.l]
    ELSE [h |-> 0, m |-> 1, l |-> a.l]

\* int -> unsigned long (64 bit): a negative value has 2^64 added.
ToULong(a) == IF WSign(a) < 0 THEN [a EXCEPT !.h = @ + 1] ELSE a

(***************************************************************************)
(* enum class move_type                                                    *)
(***************************************************************************)
TWO_THREE == 0
THREE_TWO == 1
TWO_SIX == 2
SIX_TWO == 3
FOUR_FOUR == 4

move_type == {TWO_THREE, THREE_TWO, TWO_SIX, SIX_TWO, FOUR_FOUR}

\* Table 1 of the specification: the declared effect of a move kind on
\* (N1_TL, N3_31, N3_22).
Table1(k) ==
    CASE k = TWO_THREE -> <<1, 0, 1>>
      [] k = THREE_TWO -> <<-1, 0, -1>>
      [] k = TWO_SIX   -> <<2, 4, 0>>
      [] k = SIX_TWO   -> <<-2, -4, 0>>
      [] k = FOUR_FOUR -> <<0, 0, 0>>

(***************************************************************************)
(* Bounds of the model.                                                    *)
(***************************************************************************)
\* Calls of the public attempt_move made by the caller outside a run.
MaxCalls == 1
\* Runs of operator() on one engine with a stub random source.
MaxRuns == 2

\* The hard-coded attempt budget of operator().
total_simplices_this_pass == 10

\* The inputs the model draws from.  A triangulation is given by what the
\* classifier finds in it: the (3,1), (2,2), (1,3) cells and the timelike edges.
Triangulations ==
    { [s31 |-> 0, s22 |-> 0, s13 |-> 0, tl |-> 0],
      [s31 |-> 2, s22 |-> 3, s13 |-> 2, tl |-> 5] }

\* Simulation parameters.  coupling stands for (Alpha, K, Lambda) by the
\* weights they give the three counts in the bulk action.
Configs ==
    { [passes |-> 1, coupling |-> <<1, 0, 0>>,    returns_new |-> FALSE],
      [passes |-> 2, coupling |-> <<-400, 0, 1>>, returns_new |-> TRUE] }

\* Values of generate_probability(), as fractions <<numerator, denominator>>.
TrialSet == { <<0, 1>>, <<1, 2>>, <<999999, 1000000>> }

VARIABLES
    passes_,               \* Metropolis::passes_
    coupling,              \* Alpha_, K_, Lambda_ as seen by the action evaluator
    executor_returns_new,  \* whether the executor moves the handle out and returns a new one
    rng,                   \* the random source: "uniform", or scripted: "run_high", "run_zero"
    universe_ptr_,         \* "own" (default triangulation), "given" (the caller's), "null"
    returned,              \* what operator() handed back: "none" or "ref" (a reference to universe_ptr_)
    tri,                   \* the true counts of the triangulation
    snapshot,              \* simplex_types_ and edge_types_ (cardinalities)
    N1_TL_, N3_31_, N3_22_,
    attempted_moves_, successful_moves_,
    pc,                    \* "idle", "seed_exec", "seed_counts", "loop", "accepted"
    move,                  \* the move kind being seeded / attempted
    move_attempt,          \* loop index of operator()
    in_run,                \* inside operator()
    runs, calls,
    invocations,           \* attempt_move invocations since the run started
    run_start,             \* the move statistics when the run started
    last                   \* the last attempt_move invocation: its locals and outcome

vars == << passes_, coupling, executor_returns_new, rng, universe_ptr_, returned,
           tri, snapshot, N1_TL_, N3_31_, N3_22_, attempted_moves_,
           successful_moves_, pc, move, move_attempt, in_run, runs, calls,
           invocations, run_start, last >>

(***************************************************************************)
(* Accessors and the two Metropolis ratios.                                *)
(***************************************************************************)
TotalMoves ==
    ToUintmax(WAdd(attempted_moves_[0], WAdd(attempted_moves_[1],
              WAdd(attempted_moves_[2], WAdd(attempted_moves_[3],
                   attempted_moves_[4])))))

\* The per-kind accessors, as written.
TwoThreeMoves == attempted_moves_[0]

SuccessfulTwoThreeMoves == successful_moves_[0]

ThreeTwoMoves == attempted_moves_[1]

SuccessfulThreeTwoMoves == successful_moves_[1]

TwoSixMoves == attempted_moves_[2]

SuccessfulTwoSixMoves == successful_moves_[2]

SixTwoMoves == attempted_moves_[3]

SuccessfulSixTwoMoves == attempted_moves_[3]

FourFourMoves == attempted_moves_[4]

SuccessfulFourFourMoves == attempted_moves_[4]

\* a1 = this_move / total_moves.  this_move is declared `auto this_move = 5`,
\* an int: the counter is narrowed into it and widened again by
\* mpfr_init_set_ui.  The quotient is kept as the pair it is taken of; it is
\* rounded down to a double, which moves it by less than one part in 2^52
\* and leaves 0 and 1 exact.
CalculateA1(m) ==
    LET total_moves == TotalMoves
        this_move   == ToInt(attempted_moves_[m])
        r1          == ToULong(this_move)
        r2          == total_moves
    IN  [num |-> r1, den |-> r2]

\* The bulk action for the given counts: linear in the counts, with the
\* weights the coupling constants give them.
S3_bulk_action(n1, n31, n22) ==
    WAdd(WScale(coupling[1], n1),
         WAdd(WScale(coupling[2], n31), WScale(coupling[3], n22)))

\* exp(x) for x < 0, rounded down to 256 bits and then down to a double:
\* below 1, and 0 once exp(x) is below the smallest subnormal 2^-1074
\* (x <= -745).
ExpRoundedDown(x) ==
    IF WLeq(x, W(-745)) THEN [cls |-> "zero", x |-> x]
    ELSE [cls |-> "exp", x |-> x]

One == [cls |-> "one", x |-> W(0)]

\* The counts CalculateA2 hands the evaluator for the hypothetical action.
NewActionArgs(m) ==
    CASE m = TWO_THREE -> << ToUintmax(WSub(N1_TL_, W(1))), N3_31_,
                             ToUintmax(WAdd(N3_22_, W(1))) >>
      [] m = THREE_TWO -> << ToUintmax(WAdd(N1_TL_, W(1))), N3_31_,
                             ToUintmax(WSub(N3_22_, W(1))) >>
      [] m = TWO_SIX   -> << ToUintmax(WAdd(N1_TL_, W(2))),
                             ToUintmax(WAdd(N3_31_, W(4))), N3_22_ >>
      [] m = SIX_TWO   -> << ToUintmax(WSub(N1_TL_, W(2))), N3_31_,
                             ToUintmax(WSub(N3_22_, W(4))) >>

\* a2: the value returned, the number of evaluator calls made, and the
\* counts of the hypothetical configuration (<<>> when none is evaluated).
CalculateA2(m) ==
    LET currentS3Action == S3_bulk_action(N1_TL_, N3_31_, N3_22_)
    IN  IF m = FOUR_FOUR
        THEN [ret |-> One, evals |-> 1, args |-> <<>>, exponent |-> W(0)]
        ELSE LET args        == NewActionArgs(m)
                 newS3Action == S3_bulk_action(args[1], args[2], args[3])
                 exponent    == WSub(newS3Action, currentS3Action)
             IN  [ret      |-> IF WSign(exponent) >= 0 THEN One
                               ELSE ExpRoundedDown(exponent),
                  evals    |-> 2,
                  args     |-> args,
                  exponent |-> exponent]

\* Whether a1 lies in [0, 1].
A1InUnitInterval(a1) ==
    /\ WSign(a1.den) > 0
    /\ WSign(a1.num) >= 0
    /\ WLeq(a1.num, a1.den)

\* Mutant of Accept: `trial < a1*a2`.
Accept_Strict(trial, a1, a2) ==
    IF WSign(a1.den) = 0 THEN BOOLEAN
    ELSE IF a2.cls = "zero" \/ WSign(a1.num) = 0 THEN {FALSE}
    ELSE IF trial[1] = 0 THEN {TRUE}
    ELSE IF a2.cls = "one"
         THEN { WLess(WScale(trial[1], a1.den), WScale(trial[2], a1.num)) }
    ELSE IF A1InUnitInterval(a1) THEN {FALSE}
    ELSE BOOLEAN

\* The outcomes of `trial <= a1*a2`.  With a zero denominator a1 is not a
\* number and the comparison can go either way.  For a1 <= 1 and a2 = exp(x),
\* x <= -1, the product is below 1/2, so only trial = 0 passes; for a1 > 1
\* the product is not computed here and both outcomes are kept.
Accept(trial, a1, a2) ==
    IF WSign(a1.den) = 0 THEN BOOLEAN
    ELSE IF trial[1] = 0 THEN {TRUE}
    ELSE IF a2.cls = "zero" \/ WSign(a1.num) = 0 THEN {FALSE}
    ELSE IF a2.cls = "one"
         THEN { WLeq(WScale(trial[1], a1.den), WScale(trial[2], a1.num)) }
    ELSE IF A1InUnitInterval(a1) THEN {FALSE}
    ELSE BOOLEAN

(***************************************************************************)
(* The move executor (make_23_move, make_32_move, make_26_move).  One call *)
(* adds one to the attempted counter of its kind whether or not the move   *)
(* is geometrically possible, and performs the move on the triangulation   *)
(* when it is: when the handle refers to a triangulation that holds the    *)
(* cells and edges the move replaces.  A result is the new statistics and  *)
(* the new triangulation.                                                  *)
(***************************************************************************)
Zero5 == [k \in move_type |-> W(0)]

Inc(f, k) == [f EXCEPT ![k] = ToUintmax(WAdd(@, W(1)))]

TriAfter(k) ==
    [n1  |-> tri.n1  + Table1(k)[1],
     n31 |-> tri.n31 + Table1(k)[2],
     n22 |-> tri.n22 + Table1(k)[3]]

CanPerform(k) ==
    /\ universe_ptr_ # "null"
    /\ CASE k = TWO_THREE -> tri.n22 >= 1
         [] k = THREE_TWO -> tri.n22 >= 1 /\ tri.n1 >= 1
         [] k = TWO_SIX   -> tri.n31 >= 1

MoveExecutor(k) ==
    [att |-> Inc(attempted_moves_, k),
     tri |-> IF CanPerform(k) THEN TriAfter(k) ELSE tri]

make_23_move == MoveExecutor(TWO_THREE)
make_32_move == MoveExecutor(THREE_TWO)
make_26_move == MoveExecutor(TWO_SIX)

make_move(k) ==
    CASE k = TWO_THREE -> make_23_move
      [] k = THREE_TWO -> make_32_move
      [] k = TWO_SIX   -> make_26_move

\* The handle left in universe_ptr_ by a call whose result is discarded.
HandleAfterDiscardedCall ==
    IF executor_returns_new THEN "null" ELSE universe_ptr_

NoAttempt == [move |-> -1, outcome |-> "none"]

(***************************************************************************)
(* Construction.                                                           *)
(***************************************************************************)
InitWith(sources) ==
    /\ \E c \in Configs :
         /\ passes_ = c.passes
         /\ coupling = c.coupling
         /\ executor_returns_new = c.returns_new
    /\ rng \in sources
    /\ universe_ptr_ = "own"
    /\ returned = "none"
    /\ tri = [n1 |-> 0, n31 |-> 0, n22 |-> 0]
    /\ snapshot = [s31 |-> 0, s22 |-> 0, s13 |-> 0, tl |-> 0]
    /\ N1_TL_ = W(0) /\ N3_31_ = W(0) /\ N3_22_ = W(0)
    /\ attempted_moves_ = Zero5
    /\ successful_moves_ = Zero5
    /\ pc = "idle"
    /\ move = -1
    /\ move_attempt = 0
    /\ in_run = FALSE
    /\ runs = 0 /\ calls = 0
    /\ invocations = 0
    /\ run_start = [attempted |-> Zero5, successful |-> Zero5]
    /\ last = NoAttempt

Init == InitWith({"uniform"})

params == << passes_, coupling, executor_returns_new, rng >>

(***************************************************************************)
(* operator(): taking the handle, classification, seeding.                 *)
(***************************************************************************)
\* With the uniform source the model follows an engine that is constructed
\* and run once; reuse of the engine (further runs, calls of attempt_move
\* between them) is followed with the scripted sources.
RunLimit == IF rng = "uniform" THEN 1 ELSE MaxRuns

OperatorCall ==
    /\ pc = "idle"
    /\ runs < RunLimit
    /\ \E t \in Triangulations :
         /\ tri' = [n1 |-> t.tl, n31 |-> t.s31 + t.s13, n22 |-> t.s22]
         /\ snapshot' = t
         /\ N3_31_' = W(t.s31 + t.s13)
         /\ N3_22_' = W(t.s22)
         /\ N1_TL_' = W(t.tl)
    /\ universe_ptr_' = "given"
    /\ returned' = "none"
    /\ pc' = "seed_exec"
    /\ move' = TWO_THREE
    /\ move_attempt' = 0
    /\ in_run' = TRUE
    /\ runs' = runs + 1
    /\ invocations' = 0
    /\ run_start' = [attempted |-> attempted_moves_, successful |-> successful_moves_]
    /\ last' = NoAttempt
    /\ UNCHANGED << params, attempted_moves_, successful_moves_, calls >>

\* universe_ptr_ = std::move(make_NN_move(universe_ptr_, ..., attempted_moves_))
SeedExecute ==
    /\ pc = "seed_exec"
    /\ LET r == make_move(move) IN
         /\ attempted_moves_' = r.att
         /\ tri' = r.tri
    /\ pc' = "seed_counts"
    /\ UNCHANGED << params, universe_ptr_, returned, snapshot, N1_TL_, N3_31_,
                    N3_22_, successful_moves_, move, move_attempt, in_run,
                    runs, calls, invocations, run_start, last >>

\* Mutant of CountsAfter: the two increments of the (2,6) case exchanged.
CountsAfter_TwoSixExchanged(k) ==
    CASE k = TWO_THREE -> << ToUintmax(WAdd(N1_TL_, W(1))), N3_31_,
                             ToUintmax(WAdd(N3_22_, W(1))) >>
      [] k = THREE_TWO -> << ToUintmax(WSub(N1_TL_, W(1))), N3_31_,
                             ToUintmax(WSub(N3_22_, W(1))) >>
      [] k = TWO_SIX   -> << ToUintmax(WAdd(N1_TL_, W(4))),
                             ToUintmax(WAdd(N3_31_, W(2))), N3_22_ >>

\* The count updates the engine makes for an executed move of kind k.
CountsAfter(k) ==
    CASE k = TWO_THREE -> << ToUintmax(WAdd(N1_TL_, W(1))), N3_31_,
                             ToUintmax(WAdd(N3_22_, W(1))) >>
      [] k = THREE_TWO -> << ToUintmax(WSub(N1_TL_, W(1))), N3_31_,
                             ToUintmax(WSub(N3_22_, W(1))) >>
      [] k = TWO_SIX   -> << ToUintmax(WAdd(N1_TL_, W(2))),
                             ToUintmax(WAdd(N3_31_, W(4))), N3_22_ >>

\* Mutants of SuccessfulAfter: the wrong tuple index; the increment made twice.
SuccessfulAfter_WrongIndex(k) == Inc(successful_moves_, k + 2)

SuccessfulAfter_Twice(k) == Inc(Inc(successful_moves_, k), k)

\* ++std::get<k>(successful_moves_)
SuccessfulAfter(k) == Inc(successful_moves_, k)

SeedCounts ==
    /\ pc = "seed_counts"
    /\ N1_TL_' = CountsAfter(move)[1]
    /\ N3_31_' = CountsAfter(move)[2]
    /\ N3_22_' = CountsAfter(move)[3]
    /\ successful_moves_' = SuccessfulAfter(move)
    /\ IF move = TWO_SIX
       THEN pc' = "loop" /\ move' = -1
       ELSE pc' = "seed_exec" /\ move' = move + 1
    /\ UNCHANGED << params, universe_ptr_, returned, tri, snapshot,
                    attempted_moves_, move_attempt, in_run, runs, calls,
                    invocations, run_start, last >>

(***************************************************************************)
(* attempt_move                                                            *)
(***************************************************************************)
\* The values generate_probability() can return.  A scripted source returns
\* a fixed value to the draws made inside operator() and is free outside it.
Trials ==
    IF rng = "uniform" \/ ~in_run THEN TrialSet
    ELSE IF rng = "run_high" THEN { <<999999, 1000000>> }
    ELSE { <<0, 1>> }

\* Mutants of MoveChoices: generate_random_unsigned(0, 3) and (0, 4).
MoveChoices_UpToThree == IF rng = "uniform" THEN 0..3 ELSE { move_attempt % 4 }

MoveChoices_UpToFour == IF rng = "uniform" THEN 0..4 ELSE { move_attempt % 5 }

\* The values generate_random_unsigned(0, 2) can return; a scripted source
\* goes round the three kinds.
MoveChoices == IF rng = "uniform" THEN 0..2 ELSE { move_attempt % 3 }

Executable == {TWO_THREE, THREE_TWO, TWO_SIX}

\* Where control goes when attempt_move returns.
ReturnFromAttempt ==
    /\ pc' = IF in_run THEN "loop" ELSE "idle"
    /\ move_attempt' = IF in_run THEN move_attempt + 1 ELSE move_attempt
    /\ move' = -1

\* Mutant of RejectedAttempts: the last case of the switch copied from the
\* one before it.
RejectedAttempts_CopiedCase(m) ==
    Inc(attempted_moves_, IF m = FOUR_FOUR THEN SIX_TWO ELSE m)

\* Mutant of RejectedAttempts: `--` written for `++`.
RejectedAttempts_Decrement(m) ==
    [attempted_moves_ EXCEPT ![m] = ToUintmax(WSub(@, W(1)))]

\* The rejection branch: the switch over move_choice.
RejectedAttempts(m) == Inc(attempted_moves_, m)

\* Mutant of AcceptedWithoutExecutor: the attempt is counted.
AcceptedWithoutExecutor_Counted(m) == Inc(attempted_moves_, m)

\* The acceptance branch for SIX_TWO and FOUR_FOUR: a line is printed and
\* nothing else is done.
AcceptedWithoutExecutor(m) == attempted_moves_

\* What a call of attempt_move shows its caller: it returns void, and prints
\* "(n,m) move" on the acceptance branch of every kind.
AttemptOutcome(m, accepted) ==
    [ret |-> "void", out |-> IF accepted THEN "move" ELSE "none"]

\* attempt_move(m) up to the end of the call, or, for an accepted move with
\* an executor, up to the return of the executor.
AttemptMove(m) ==
    \E trial \in Trials :
      LET a1 == CalculateA1(m)
          a2 == CalculateA2(m)
      IN  \E accepted \in Accept(trial, a1, a2.ret) :
            /\ last' = [move |-> m,
                        outcome |-> IF accepted THEN "accepted" ELSE "rejected",
                        pre |-> << N1_TL_, N3_31_, N3_22_ >>,
                        a1 |-> a1, a2 |-> a2, trial |-> trial,
                        result |-> AttemptOutcome(m, accepted)]
            /\ invocations' = invocations + 1
            /\ IF accepted /\ m \in Executable
               THEN /\ LET r == make_move(m) IN
                         /\ attempted_moves_' = r.att
                         /\ tri' = r.tri
                    /\ universe_ptr_' = HandleAfterDiscardedCall
                    /\ pc' = "accepted"
                    /\ move' = m
                    /\ UNCHANGED move_attempt
               ELSE /\ attempted_moves_' =
                         IF accepted THEN AcceptedWithoutExecutor(m)
                         ELSE RejectedAttempts(m)
                    /\ ReturnFromAttempt
                    /\ UNCHANGED << tri, universe_ptr_ >>
            /\ UNCHANGED << params, returned, snapshot, N1_TL_, N3_31_, N3_22_,
                            successful_moves_, in_run, runs, run_start >>

\* The rest of the acceptance branch: the counts and successful_moves_.
AcceptedCounts ==
    /\ pc = "accepted"
    /\ N1_TL_' = CountsAfter(move)[1]
    /\ N3_31_' = CountsAfter(move)[2]
    /\ N3_22_' = CountsAfter(move)[3]
    /\ successful_moves_' = SuccessfulAfter(move)
    /\ ReturnFromAttempt
    /\ UNCHANGED << params, universe_ptr_, returned, tri, snapshot,
                    attempted_moves_, in_run, runs, calls,
                    invocations, run_start, last >>

\* One iteration of the loop of operator(): generate_random_unsigned(0, 2)
\* picks the move.
LoopAttempt ==
    /\ pc = "loop"
    /\ move_attempt < total_simplices_this_pass
    /\ \E move_choice \in MoveChoices : AttemptMove(move_choice)
    /\ UNCHANGED calls

\* return universe_ptr_;  (the return type is a reference)
OperatorReturn ==
    /\ pc = "loop"
    /\ ~(move_attempt < total_simplices_this_pass)
    /\ pc' = "idle"
    /\ in_run' = FALSE
    /\ returned' = "ref"
    /\ last' = NoAttempt
    /\ UNCHANGED << params, universe_ptr_, tri, snapshot, N1_TL_, N3_31_, N3_22_,
                    attempted_moves_, successful_moves_, move, move_attempt,
                    runs, calls, invocations, run_start >>

\* The caller calls the public attempt_move between runs, once some move
\* has been attempted (the documented precondition of the ratio a1).
PublicAttempt ==
    /\ pc = "idle"
    /\ rng # "uniform"
    /\ calls < MaxCalls
    /\ WSign(TotalMoves) # 0
    /\ \E m \in move_type : AttemptMove(m)
    /\ calls' = calls + 1

\* One engine, constructed and run once with the uniform random source.
Next ==
    \/ OperatorCall
    \/ SeedExecute
    \/ SeedCounts
    \/ LoopAttempt
    \/ AcceptedCounts
    \/ OperatorReturn

Spec == Init /\ [][Next]_vars

\* One engine used through its whole public interface: several runs and
\* calls of attempt_move between them, with a scripted random source.
InitApi == InitWith({"run_high", "run_zero"})

NextApi ==
    \/ OperatorCall
    \/ SeedExecute
    \/ SeedCounts
    \/ LoopAttempt
    \/ AcceptedCounts
    \/ OperatorReturn
    \/ PublicAttempt

SpecApi == InitApi /\ [][NextApi]_vars

(***************************************************************************)
(* Failure of a collaborator.  The classifier, the move executor and the   *)
(* action evaluator report a failure by throwing.  operator() is not       *)
(* noexcept: an exception thrown in it reaches its caller.  attempt_move   *)
(* is noexcept: an exception thrown in it calls std::terminate and the     *)
(* process ends.  The engine is not followed further after a failure.      *)
(***************************************************************************)
\* classify_simplices / classify_edges throw, after the handle was moved in.
ClassifierFails ==
    /\ pc = "idle"
    /\ runs < RunLimit
    /\ \E t \in Triangulations :
         tri' = [n1 |-> t.tl, n31 |-> t.s31 + t.s13, n22 |-> t.s22]
    /\ universe_ptr_' = "given"
    /\ returned' = "none"
    /\ pc' = "threw"
    /\ runs' = runs + 1
    /\ UNCHANGED << params, snapshot, N1_TL_, N3_31_, N3_22_, attempted_moves_,
                    successful_moves_, move, move_attempt, in_run, calls,
                    invocations, run_start, last >>

\* A make_NN_move call of the seeding phase throws.
SeedExecutorFails ==
    /\ pc = "seed_exec"
    /\ pc' = "threw"
    /\ in_run' = FALSE
    /\ UNCHANGED << params, universe_ptr_, returned, tri, snapshot, N1_TL_,
                    N3_31_, N3_22_, attempted_moves_, successful_moves_, move,
                    move_attempt, runs, calls, invocations, run_start, last >>

\* S3_bulk_action or a make_NN_move call throws inside attempt_move, called
\* from the loop of operator() or by the caller.
AttemptCollaboratorFails ==
    /\ \/ pc = "loop" /\ move_attempt < total_simplices_this_pass
       \/ pc = "idle" /\ rng # "uniform" /\ calls < MaxCalls
                      /\ WSign(TotalMoves) # 0
    /\ pc' = "terminated"
    /\ in_run' = FALSE
    /\ UNCHANGED << params, universe_ptr_, returned, tri, snapshot, N1_TL_,
                    N3_31_, N3_22_, attempted_moves_, successful_moves_, move,
                    move_attempt, runs, calls, invocations, run_start, last >>

\* The public interface with collaborators that can fail.
NextFail ==
    \/ OperatorCall
    \/ SeedExecute
    \/ SeedCounts
    \/ LoopAttempt
    \/ AcceptedCounts
    \/ OperatorReturn
    \/ PublicAttempt
    \/ ClassifierFails
    \/ SeedExecutorFails
    \/ AttemptCollaboratorFails

SpecFail == InitApi /\ [][NextFail]_vars

\* An engine after a long history, used through its public interface: one
\* run on the second triangulation has returned and 2^31 - 2 attempts of
\* (2,3) moves have been made in all, so that the argument of CalculateA1
\* is near the end of the range of int.
InitWide ==
    /\ \E c \in Configs :
         /\ passes_ = c.passes
         /\ coupling = c.coupling
         /\ executor_returns_new = c.returns_new
    /\ rng \in {"run_high", "run_zero"}
    /\ universe_ptr_ = "given"
    /\ returned = "ref"
    /\ tri = [n1 |-> 7, n31 |-> 8, n22 |-> 3]
    /\ snapshot = [s31 |-> 2, s22 |-> 3, s13 |-> 2, tl |-> 5]
    /\ N1_TL_ = W(7) /\ N3_31_ = W(8) /\ N3_22_ = W(3)
    /\ attempted_moves_ =
         [k \in move_type |->
            IF k = TWO_THREE THEN WSub(Pow31, W(2))
            ELSE IF k \in Executable THEN W(1) ELSE W(0)]
    /\ successful_moves_ =
         [k \in move_type |-> IF k \in Executable THEN W(1) ELSE W(0)]
    /\ pc = "idle"
    /\ move = -1
    /\ move_attempt = total_simplices_this_pass
    /\ in_run = FALSE
    /\ runs = 0 /\ calls = 0
    /\ invocations = 0
    /\ run_start = [attempted |-> Zero5, successful |-> Zero5]
    /\ last = NoAttempt

SpecWide == InitWide /\ [][NextApi]_vars

(***************************************************************************)
(* Properties.                                                             *)
(***************************************************************************)
Counts == << N1_TL_, N3_31_, N3_22_ >>

\* c plus the Table 1 row of kind k, in uintmax_t arithmetic.
PlusTable1(c, k) ==
    << ToUintmax(WAdd(c[1], W(Table1(k)[1]))),
       ToUintmax(WAdd(c[2], W(Table1(k)[2]))),
       ToUintmax(WAdd(c[3], W(Table1(k)[3]))) >>

\* attempt_move has returned and `last` describes that call.
AttemptReturned == last.outcome # "none" /\ pc \in {"idle", "loop"}

\* The run's triangulation has an eligible element for each seeded kind.
EligiblePerSeededKind ==
    /\ snapshot.s22 >= 1
    /\ snapshot.tl >= 1
    /\ snapshot.s31 + snapshot.s13 >= 1

\* operator() has just finished seeding.
JustSeeded == pc = "loop" /\ move_attempt = 0 /\ last.outcome = "none"

\* C1: in every state of a run, the states between the executor's increment
\* of attempted_moves_ and the engine's increment of successful_moves_
\* included, attempted[k] >= successful[k] for each of the five kinds.
C1_AttemptedAtLeastSuccessful ==
    \A k \in move_type : WLeq(successful_moves_[k], attempted_moves_[k])

\* A state between the two increments of an accepted (2,3) move.
C1_Witness ==
    /\ pc = "accepted" /\ move = TWO_THREE
    /\ WLess(successful_moves_[TWO_THREE], attempted_moves_[TWO_THREE])

\* C2: after every accepted attempt_move, of each of the five kinds, the
\* counts are the counts before the call plus the Table 1 row of the kind.
C2_AcceptedAppliesTable1 ==
    (AttemptReturned /\ last.outcome = "accepted")
        => Counts = PlusTable1(last.pre, last.move)

\* C3: a rejected attempt_move adds one to attempted_moves_ of its kind and
\* changes nothing else: not the counts, successful_moves_, the other
\* attempted counters, the snapshot, the triangulation or its handle.
C3_RejectedOnlyCountsAttempt ==
    [][ (invocations' = invocations + 1 /\ last'.outcome = "rejected")
          => /\ attempted_moves_' = Inc(attempted_moves_, last'.move)
             /\ UNCHANGED << N1_TL_, N3_31_, N3_22_, successful_moves_,
                             snapshot, tri, universe_ptr_ >> ]_vars

\* A (3,2) proposal has been rejected.
C3_Witness ==
    /\ AttemptReturned /\ last.outcome = "rejected"
    /\ last.move = THREE_TWO
    /\ WLess(successful_moves_[THREE_TWO], attempted_moves_[THREE_TWO])

\* C4: the hypothetical action of CalculateA2 is evaluated at the current
\* counts plus the Table 1 row of the kind, the counts the engine applies
\* when the move is accepted.
C4_HypotheticalCountsAreTable1 ==
    (last.outcome # "none" /\ last.move # FOUR_FOUR)
        => last.a2.args = PlusTable1(last.pre, last.move)

\* C5 (as stated): immediately after seeding on a triangulation with an
\* eligible element per seeded kind, the attempted and successful counters
\* of the three seeded kinds are 1, whatever happened on the engine before.
C5_SeededCountersAreOne ==
    (JustSeeded /\ EligiblePerSeededKind)
        => \A k \in Executable :
              /\ attempted_moves_[k] = W(1)
              /\ successful_moves_[k] = W(1)

\* C5 (amended): immediately after seeding, each of the six counters is one
\* more than when the run started; so it is 1 when the run started with
\* the counters at zero.
C5_SeedingAddsOne ==
    (JustSeeded /\ EligiblePerSeededKind)
        => \A k \in Executable :
              /\ attempted_moves_[k] = WAdd(run_start.attempted[k], W(1))
              /\ successful_moves_[k] = WAdd(run_start.successful[k], W(1))
              /\ (run_start.attempted[k] = W(0) => attempted_moves_[k] = W(1))
              /\ (run_start.successful[k] = W(0) => successful_moves_[k] = W(1))

\* Seeding has just finished in the second run of an engine.
C5_Witness ==
    /\ JustSeeded /\ EligiblePerSeededKind
    /\ runs = 2
    /\ attempted_moves_[TWO_THREE] # W(1)

\* C6: after operator() has returned, the engine holds no handle to the
\* triangulation.
C6_NoHandleAfterReturn ==
    (pc = "idle" /\ returned = "ref") => universe_ptr_ = "null"

\* C7: a run makes passes * (attempt budget) calls of attempt_move.
C7_AttemptsArePassesTimesBudget ==
    (pc = "idle" /\ returned = "ref")
        => invocations = passes_ * total_simplices_this_pass

\* C8: CalculateA2(FOUR_FOUR) returns exactly 1 and makes no call of the
\* action evaluator.
C8_FourFourWithoutEvaluator ==
    (last.outcome # "none" /\ last.move = FOUR_FOUR)
        => last.a2.ret = One /\ last.a2.evals = 0

\* C9: CalculateA2 returns exactly 1 when the action difference is >= 0 and
\* a value strictly between 0 and 1 otherwise; never 0.
C9_DynamicalRatioInHalfOpenUnit ==
    last.outcome # "none"
        => /\ WSign(last.a2.exponent) >= 0 => last.a2.ret = One
           /\ WSign(last.a2.exponent) < 0 => last.a2.ret.cls = "exp"

\* C10: for every kind with attempted[k] > 0, CalculateA1(k) lies in [0, 1]
\* and its numerator is attempted[k], the five of which sum to TotalMoves.
C10_CombinatorialRatioInUnit ==
    \A k \in move_type :
        WSign(attempted_moves_[k]) > 0
            => /\ A1InUnitInterval(CalculateA1(k))
               /\ CalculateA1(k).num = attempted_moves_[k]
               /\ CalculateA1(k).den = TotalMoves

\* C11: within a run, every call of CalculateA1(kind) is made in a state
\* where TotalMoves > 0 and attempted[kind] >= 1.
C11_RatioCalledAfterSeeding ==
    [][ (in_run /\ invocations' = invocations + 1)
          => /\ WSign(TotalMoves) > 0
             /\ WLeq(W(1), attempted_moves_[last'.move]) ]_vars

\* The first attempt of a run has been made, with a positive denominator.
C11_Witness ==
    /\ in_run /\ invocations = 1
    /\ last.outcome # "none"
    /\ WSign(last.a1.den) > 0 /\ WSign(last.a1.num) > 0

\* Whether trial <= a1*a2, for a1 in [0, 1]: the product is 0 when a factor
\* is 0, a1 when a2 = 1, and below 1/2 when a2 = exp(x) with x <= -1.
TrialAtMostProduct(trial, a1, a2) ==
    IF a2.cls = "zero" \/ WSign(a1.num) = 0 THEN trial[1] = 0
    ELSE IF a2.cls = "one"
         THEN WLeq(WScale(trial[1], a1.den), WScale(trial[2], a1.num))
    ELSE 2 * trial[1] < trial[2]

AcceptedUnsupported ==
    /\ AttemptReturned /\ last.outcome = "accepted"
    /\ last.move \in {SIX_TWO, FOUR_FOUR}

\* C14: an accepted SIX_TWO or FOUR_FOUR proposal gives its caller an
\* explicit unsupported-move outcome, distinct from accepted and rejected.
C14_UnsupportedMoveIsSignalled ==
    AcceptedUnsupported
        => (last.result.ret = "unsupported" \/ last.result.out = "unsupported")

\* C13: when a collaborator fails during a run, the run halts, a failure
\* outcome reaches the caller of the run, and the move statistics are
\* unchanged by the failure and still readable.
C13_FailureReachesCaller ==
    [][ (pc' \in {"threw", "terminated"} /\ pc' # pc)
          => /\ pc' = "threw"
             /\ UNCHANGED << attempted_moves_, successful_moves_ >> ]_vars

\* C15: each per-kind accessor returns the counter it is named for: the
\* attempted accessor of k returns attempted[k], the successful accessor of
\* k returns successful[k].
C15_AccessorsReturnNamedCounter ==
    /\ TwoThreeMoves = attempted_moves_[TWO_THREE]
    /\ ThreeTwoMoves = attempted_moves_[THREE_TWO]
    /\ TwoSixMoves = attempted_moves_[TWO_SIX]
    /\ SixTwoMoves = attempted_moves_[SIX_TWO]
    /\ FourFourMoves = attempted_moves_[FOUR_FOUR]
    /\ SuccessfulTwoThreeMoves = successful_moves_[TWO_THREE]
    /\ SuccessfulThreeTwoMoves = successful_moves_[THREE_TWO]
    /\ SuccessfulTwoSixMoves = successful_moves_[TWO_SIX]
    /\ SuccessfulSixTwoMoves = successful_moves_[SIX_TWO]
    /\ SuccessfulFourFourMoves = successful_moves_[FOUR_FOUR]

\* The counts derived from the classification at the start of the run.
InitialCounts ==
    << W(snapshot.tl), W(snapshot.s31 + snapshot.s13), W(snapshot.s22) >>

\* The number of moves seeded so far in the seeding phase.
SeededSoFar ==
    IF pc = "seed_exec" THEN move
    ELSE IF pc = "seed_counts" THEN move
    ELSE 3

\* C16: during and after seeding the counts are the counts of the initial
\* classification plus the Table 1 rows of the moves seeded so far: (1,0,1)
\* after the (2,3) move, (0,0,0) after the (3,2) move, and N1_TL + 2,
\* N3_31 + 4, N3_22 after the (2,6) move.
C16_SeededCountsAreInitialPlusRows ==
    /\ (pc \in {"seed_exec", "seed_counts"} /\ SeededSoFar = 0)
          => Counts = InitialCounts
    /\ (pc \in {"seed_exec", "seed_counts"} /\ SeededSoFar = 1)
          => Counts = PlusTable1(InitialCounts, TWO_THREE)
    /\ (pc \in {"seed_exec", "seed_counts"} /\ SeededSoFar = 2)
          => Counts = InitialCounts
    /\ JustSeeded
          => Counts = << WAdd(InitialCounts[1], W(2)),
                         WAdd(InitialCounts[2], W(4)), InitialCounts[3] >>

\* Seeding has finished on the triangulation with 5 timelike edges, 4 cells
\* of type (3,1) or (1,3) and 3 of type (2,2).
C16_Witness ==
    /\ JustSeeded
    /\ snapshot.s22 = 3
    /\ Counts = << W(7), W(8), W(3) >>

\* C17: every call of attempt_move, accepted or rejected and of any of the
\* five kinds, adds exactly one to attempted[kind] and leaves the attempted
\* counters of the other kinds unchanged.
C17_EveryAttemptIsCounted ==
    [][ invocations' = invocations + 1
          => attempted_moves_' = Inc(attempted_moves_, last'.move) ]_vars

\* C18: an accepted attempt_move(SIX_TWO) or attempt_move(FOUR_FOUR) changes
\* no engine state: the counts, successful_moves_, attempted_moves_, the
\* snapshot, the triangulation and its handle are as before the call.
C18_AcceptedUnsupportedChangesNothing ==
    [][ (/\ invocations' = invocations + 1
         /\ last'.outcome = "accepted"
         /\ last'.move \in {SIX_TWO, FOUR_FOUR})
          => UNCHANGED << N1_TL_, N3_31_, N3_22_, successful_moves_,
                          attempted_moves_, snapshot, tri, universe_ptr_ >> ]_vars

\* An accepted (4,4) proposal has returned.
C18_Witness ==
    /\ AttemptReturned /\ last.outcome = "accepted"
    /\ last.move = FOUR_FOUR
    /\ last.trial[1] = 0

\* C19: during a run only TWO_THREE, THREE_TWO and TWO_SIX are seeded or
\* proposed, so the attempted and successful counters of SIX_TWO and
\* FOUR_FOUR keep the values they had when the run started.
C19_RunLeavesSixTwoFourFourAlone ==
    in_run
        => /\ last.outcome # "none" => last.move \in Executable
           /\ move \in Executable \cup {-1}
           /\ \A k \in {SIX_TWO, FOUR_FOUR} :
                 /\ attempted_moves_[k] = run_start.attempted[k]
                 /\ successful_moves_[k] = run_start.successful[k]

\* The loop of a second run is under way on an engine whose (6,2) counter
\* was raised by a call of attempt_move between the runs.
C19_Witness ==
    /\ in_run /\ runs = 2 /\ invocations >= 3
    /\ attempted_moves_[SIX_TWO] = W(1)

\* C20: the ten counters are zero at construction and never decrease, and
\* once a run has completed they change only when attempt_move is called
\* (by the caller or by a new run).
C20_CountersStartAtZeroAndNeverDecrease ==
    /\ \A k \in move_type :
          attempted_moves_[k] = W(0) /\ successful_moves_[k] = W(0)
    /\ [][ /\ \A k \in move_type :
                /\ WLeq(attempted_moves_[k], attempted_moves_'[k])
                /\ WLeq(successful_moves_[k], successful_moves_'[k])
           /\ (/\ pc = "idle"
               /\ << attempted_moves_, successful_moves_ >>'
                     # << attempted_moves_, successful_moves_ >>)
                => invocations' = invocations + 1 ]_vars

\* A second run has completed with more attempts counted than the first.
C20_Witness ==
    /\ pc = "idle" /\ returned = "ref" /\ runs = 2
    /\ WLess(W(13), TotalMoves)
    /\ WLess(W(3), attempted_moves_[TWO_THREE])

\* The true counts of the triangulation.
TrueCounts == << W(tri.n1), W(tri.n31), W(tri.n22) >>

\* C21: after every seeded move and every attempt_move the engine's counts
\* are the true counts of the triangulation: a delta is applied only when
\* the executor performed the move.
C21_BelievedCountsAreTrue ==
    pc \in {"idle", "loop", "seed_exec"} => Counts = TrueCounts

\* A uintmax_t value that a subtraction below zero has wrapped to: one of
\* the values 2^64 - n, n small.
Wrapped(a) == a.h >= 1

\* C22: the unsigned counts never wrap around: N1_TL_, N3_31_ and N3_22_ are
\* never decremented below zero, and CalculateA2 never hands the action
\* evaluator a count obtained by subtracting from a smaller value.
C22_CountsNeverWrap ==
    /\ ~Wrapped(N1_TL_) /\ ~Wrapped(N3_31_) /\ ~Wrapped(N3_22_)
    /\ (last.outcome # "none" /\ last.move # FOUR_FOUR)
          => \A i \in 1..3 : ~Wrapped(last.a2.args[i])

\* C23: CalculateA1(kind) divides the full value of attempted[kind] by the
\* full value of TotalMoves, for every value the counters hold.
C23_RatioUsesFullCounter ==
    \A k \in move_type :
        CalculateA1(k) = [num |-> attempted_moves_[k], den |-> TotalMoves]

\* C24: from the start of a run until its return, universe_ptr_ holds a
\* valid handle in every state.
C24_HandleValidDuringRun ==
    in_run => universe_ptr_ # "null"

====
